---------------------------- MODULE Spec2Model ----------------------------
(* A model of the SQL data-dictionary extractor (src/main.py).               *)
(*                                                                         *)
(* Text is a sequence of one-character strings, so that the regular         *)
(* expressions of extract_sql_components are modelled by what they match,   *)
(* character by character.  Identifiers are such sequences too.             *)
EXTENDS Naturals, Sequences, FiniteSets, Bags, TLC

VARIABLES
    folder,           \* the directory: file name -> raw text of the file
    sql_files,        \* process_sql_folder: the names os.listdir gave, filtered
    idx,              \* process_sql_folder: number of files of sql_files done
    ext,              \* extract_sql_components: its locals at its last return
    file_components,  \* process_sql_folder: the catalog of the last file
    all_components,   \* process_sql_folder: the merged catalog
    pc,               \* "start", "loop" or "done"
    run,              \* how many times the program was started on the folder
    prev_files,       \* sql_files of the previous run
    prev_components   \* the catalog the previous run returned

vars == <<folder, sql_files, idx, ext, file_components, all_components, pc,
          run, prev_files, prev_components>>

---------------------------------------------------------------------------
(* Characters and strings                                                  *)

Lowers == <<"a", "b", "c", "d", "e", "f", "g", "h", "i", "j", "k", "l", "m", "n", "o", "p", "q", "r", "s", "t", "u", "v", "w", "x", "y", "z">>
Uppers == <<"A", "B", "C", "D", "E", "F", "G", "H", "I", "J", "K", "L", "M", "N", "O", "P", "Q", "R", "S", "T", "U", "V", "W", "X", "Y", "Z">>
Digits == <<"0", "1", "2", "3", "4", "5", "6", "7", "8", "9">>

Range(s) == {s[k] : k \in DOMAIN s}

\* \w of the re module, on the ASCII characters of the model
WordChars == Range(Lowers) \cup Range(Uppers) \cup Range(Digits) \cup {"_"}

\* \s of the re module, and the characters str.strip() removes
SpaceChars == {" ", "\t", "\n", "\r", "\f"}

UpperMap == [c \in Range(Lowers) |-> Uppers[CHOOSE k \in 1..26 : Lowers[k] = c]]

\* str.upper(), character by character
UpperChar(c) == IF c \in DOMAIN UpperMap THEN UpperMap[c] ELSE c
Upper(w) == [k \in DOMAIN w |-> UpperChar(w[k])]

IsWord(s, i) == i >= 1 /\ i <= Len(s) /\ s[i] \in WordChars
IsSpace(s, i) == i >= 1 /\ i <= Len(s) /\ s[i] \in SpaceChars

\* s[i:j] of Python with 1-based inclusive ends: the characters i..j
Sub(s, i, j) == IF j < i THEN <<>> ELSE SubSeq(s, i, j)

\* the least element of S that is >= i, or 0
LeastFrom(S, i) ==
    IF \E j \in S : j >= i
    THEN CHOOSE j \in S : j >= i /\ \A k \in S : k >= i => j <= k
    ELSE 0

\* the index just after the longest run of \w characters that starts at i
WordEnd(s, i) ==
    IF ~IsWord(s, i) THEN i
    ELSE CHOOSE j \in (i + 1)..(Len(s) + 1) :
             ~IsWord(s, j) /\ \A k \in (i + 1)..(j - 1) : IsWord(s, k)

\* the index just after the longest run of \s characters that starts at i
SpaceEnd(s, i) ==
    IF ~IsSpace(s, i) THEN i
    ELSE CHOOSE j \in (i + 1)..(Len(s) + 1) :
             ~IsSpace(s, j) /\ \A k \in (i + 1)..(j - 1) : IsSpace(s, k)

\* a literal keyword at i, compared as re.IGNORECASE compares it
KeywordAt(s, i, kw) ==
    /\ i >= 1
    /\ i + Len(kw) - 1 <= Len(s)
    /\ \A k \in 1..Len(kw) : UpperChar(s[i + k - 1]) = kw[k]

\* a literal at i, compared exactly
LiteralAt(s, i, lit) ==
    /\ i >= 1
    /\ i + Len(lit) - 1 <= Len(s)
    /\ \A k \in 1..Len(lit) : s[i + k - 1] = lit[k]

\* the first index >= i where lit starts, or 0
IndexOf(s, i, lit) == LeastFrom({j \in i..Len(s) : LiteralAt(s, j, lit)}, i)

\* A pattern is modelled by its match at an index i of a text: the index just
\* after the match (end) and its groups, or NoMatch.
NoMatch == [end |-> 0, groups |-> <<>>]

---------------------------------------------------------------------------
(* The Normalizer: lines 12-14                                             *)

\* the match at i of  --.*?\n|/\*[\s\S]*?\*/|\n|\t  : the index just after
\* it, or 0.  A line comment needs its newline: `.` does not match "\n" and
\* the lazy .*? stops at the first one.
comment_pattern(s, i) ==
    LET nl == IndexOf(s, i + 2, <<"\n">>)
        close == IndexOf(s, i + 2, <<"*", "/">>)
    IN  IF LiteralAt(s, i, <<"-", "-">>) /\ nl > 0 THEN nl + 1
        ELSE IF LiteralAt(s, i, <<"/", "*">>) /\ close > 0 THEN close + 2
        ELSE IF i <= Len(s) /\ s[i] \in {"\n", "\t"} THEN i + 1
        ELSE 0

\* re.sub(comment_pattern, ' ', content)
RECURSIVE remove_from(_, _, _)
remove_from(s, starts, i) ==
    LET start == LeastFrom(starts, i)
    IN  IF start = 0 THEN Sub(s, i, Len(s))
        ELSE Sub(s, i, start - 1) \o <<" ">>
                 \o remove_from(s, starts, comment_pattern(s, start))

remove_comments(s, i) ==
    remove_from(s, {j \in i..Len(s) : comment_pattern(s, j) > 0}, i)

\* re.sub(r'\s+', ' ', content): the first character of each run of \s
\* becomes the space, the others of the run go
collapse_whitespace(s) ==
    LET marked == [k \in DOMAIN s |->
                      IF ~IsSpace(s, k) THEN s[k]
                      ELSE IF IsSpace(s, k - 1) THEN "" ELSE " "]
        Kept(c) == c # ""
    IN  SelectSeq(marked, Kept)

\* the index of the last character that is not whitespace, or 0
LastNonSpace(s, j) ==
    IF \E k \in 1..j : ~IsSpace(s, k)
    THEN CHOOSE k \in 1..j : ~IsSpace(s, k) /\ \A m \in (k + 1)..j : IsSpace(s, m)
    ELSE 0

\* str.strip()
strip(s) == Sub(s, SpaceEnd(s, 1), LastNonSpace(s, Len(s)))

\* lines 13-14
normalize(raw) == strip(collapse_whitespace(remove_comments(raw, 1)))

---------------------------------------------------------------------------
(* The patterns: lines 16-35                                               *)

S_FROM == <<"F", "R", "O", "M">>
S_JOIN == <<"J", "O", "I", "N">>
S_SELECT == <<"S", "E", "L", "E", "C", "T">>
S_WHERE == <<"W", "H", "E", "R", "E">>

\* (\w+)\.(\w+)\.(\w+) at i.  Each \w+ is followed by a character that is
\* not \w, so only the longest run can match: backtracking adds nothing.
db_table_column_pattern(s, i) ==
    LET e1 == WordEnd(s, i)
        e2 == WordEnd(s, e1 + 1)
        e3 == WordEnd(s, e2 + 1)
    IN  IF /\ e1 > i /\ LiteralAt(s, e1, <<".">>)
           /\ e2 > e1 + 1 /\ LiteralAt(s, e2, <<".">>)
           /\ e3 > e2 + 1
        THEN [end |-> e3,
              groups |-> <<Sub(s, i, e1 - 1), Sub(s, e1 + 1, e2 - 1),
                           Sub(s, e2 + 1, e3 - 1)>>]
        ELSE NoMatch

\* (\w+)\.(\w+) at i
table_column_pattern(s, i) ==
    LET e1 == WordEnd(s, i)
        e2 == WordEnd(s, e1 + 1)
    IN  IF e1 > i /\ LiteralAt(s, e1, <<".">>) /\ e2 > e1 + 1
        THEN [end |-> e2,
              groups |-> <<Sub(s, i, e1 - 1), Sub(s, e1 + 1, e2 - 1)>>]
        ELSE NoMatch

\* kw\s+(\w+\.)?(\w+) at i, re.IGNORECASE.  The optional group is tried
\* first and given up when no \w follows its dot; an unmatched group of
\* findall is ''.
clause_pattern(kw, s, i) ==
    LET k == SpaceEnd(s, i + Len(kw))
        e1 == WordEnd(s, k)
        e2 == WordEnd(s, e1 + 1)
    IN  IF KeywordAt(s, i, kw) /\ k > i + Len(kw) /\ e1 > k
        THEN IF LiteralAt(s, e1, <<".">>) /\ e2 > e1 + 1
             THEN [end |-> e2,
                   groups |-> <<Sub(s, k, e1), Sub(s, e1 + 1, e2 - 1)>>]
             ELSE [end |-> e1, groups |-> <<<<>>, Sub(s, k, e1 - 1)>>]
        ELSE NoMatch

\* FROM\s+(\w+\.)?(\w+)
from_pattern(s, i) == clause_pattern(S_FROM, s, i)

\* JOIN\s+(\w+\.)?(\w+)
join_pattern(s, i) == clause_pattern(S_JOIN, s, i)

\* \s+FROM at q: the whitespace run must be whole, since F is not \s
SpaceFromAt(s, q) == IsSpace(s, q) /\ KeywordAt(s, SpaceEnd(s, q), S_FROM)

\* the first q >= p where \s+FROM matches with no "\n" in p..q-1, or 0:
\* the lazy (.*?) grows one character at a time and `.` is not "\n"
LazyUntilFrom(s, p) ==
    LET q == LeastFrom({j \in p..Len(s) : SpaceFromAt(s, j)}, p)
    IN  IF q > 0 /\ \A k \in p..(q - 1) : s[k] # "\n" THEN q ELSE 0

\* SELECT\s+(.*?)\s+FROM at i, re.IGNORECASE.  The greedy \s+ takes the whole
\* run first; only when no FROM is found that way does it give back a
\* character, and then the group is empty and FROM must follow the run.
select_pattern(s, i) ==
    LET j == i + Len(S_SELECT)
        p == SpaceEnd(s, j)
        q == LazyUntilFrom(s, p)
    IN  IF KeywordAt(s, i, S_SELECT) /\ p > j
        THEN IF q > 0
             THEN [end |-> SpaceEnd(s, q) + Len(S_FROM), groups |-> Sub(s, p, q - 1)]
             ELSE IF p > j + 1 /\ KeywordAt(s, p, S_FROM)
             THEN [end |-> p + Len(S_FROM), groups |-> <<>>]
             ELSE NoMatch
        ELSE NoMatch

\* the match of the named pattern at i
match_at(pattern, s, i) ==
    CASE pattern = "db_table_column_pattern" -> db_table_column_pattern(s, i)
      [] pattern = "table_column_pattern" -> table_column_pattern(s, i)
      [] pattern = "from_pattern" -> from_pattern(s, i)
      [] pattern = "join_pattern" -> join_pattern(s, i)
      [] pattern = "select_pattern" -> select_pattern(s, i)

\* the matches of findall from i on, given the indices where the pattern
\* matches: the leftmost one, then the leftmost one after its end, ...
RECURSIVE find_from(_, _, _, _)
find_from(pattern, s, starts, i) ==
    LET start == LeastFrom(starts, i)
    IN  IF start = 0 THEN <<>>
        ELSE LET m == match_at(pattern, s, start)
             IN  <<m.groups>> \o find_from(pattern, s, starts, m.end)

\* re.findall(pattern, s): the groups of the successive non-overlapping
\* matches.  Whether a pattern matches at an index does not depend on where
\* the scan began, and no pattern here matches the empty string.
findall(pattern, s) ==
    find_from(pattern, s, {j \in 1..Len(s) : match_at(pattern, s, j).end > 0}, 1)

---------------------------------------------------------------------------
(* The SELECT list: lines 37-49                                            *)

\* str.split(','): the pieces between the commas, from i on
RECURSIVE split_comma(_, _)
split_comma(s, i) ==
    LET c == IndexOf(s, i, <<",">>)
    IN  IF c = 0 THEN <<Sub(s, i, Len(s))>>
        ELSE <<Sub(s, i, c - 1)>> \o split_comma(s, c + 1)

\* \s+[aA][sS]\s+(\w+) at e: the alias, or <<>> when the optional group
\* does not match
alias_at(s, e) ==
    LET a == SpaceEnd(s, e)
        b == SpaceEnd(s, a + 2)
    IN  IF a > e /\ KeywordAt(s, a, <<"A", "S">>) /\ b > a + 2 /\ WordEnd(s, b) > b
        THEN Sub(s, b, WordEnd(s, b) - 1)
        ELSE <<>>

\* (?:(\w+)\.)?(\w+)(?:\s+[aA][sS]\s+(\w+))? at i: groups 1, 2 and 3
col_pattern(s, i) ==
    LET e1 == WordEnd(s, i)
        e2 == WordEnd(s, e1 + 1)
    IN  IF e1 > i
        THEN IF LiteralAt(s, e1, <<".">>) /\ e2 > e1 + 1
             THEN [end |-> e2,
                   groups |-> <<Sub(s, i, e1 - 1), Sub(s, e1 + 1, e2 - 1),
                                alias_at(s, e2)>>]
             ELSE [end |-> e1, groups |-> <<<<>>, Sub(s, i, e1 - 1), alias_at(s, e1)>>]
        ELSE NoMatch

\* re.search: the leftmost match, from i on
col_match(s, i) ==
    LET start == LeastFrom({j \in i..Len(s) : col_pattern(s, j).end > 0}, i)
    IN  IF start = 0 THEN NoMatch ELSE col_pattern(s, start)

Reserved == {S_SELECT, S_FROM, S_WHERE, S_JOIN}

\* column_of with the alias taken for the column name when there is one
column_of_alias(piece) ==
    LET col == strip(piece)
        m == col_match(col, 1)
        name == IF m.end > 0 /\ m.groups[3] # <<>> THEN m.groups[3]
                ELSE IF m.end > 0 THEN m.groups[2] ELSE <<>>
    IN  IF name # <<>> /\ Upper(name) \notin Reserved THEN <<name>> ELSE <<>>

\* lines 42-49 for one piece of the list: the column name it appends, as a
\* sequence of zero or one names
column_of(piece) ==
    LET col == strip(piece)
        m == col_match(col, 1)
    IN  IF m.end > 0 /\ m.groups[2] # <<>> /\ Upper(m.groups[2]) \notin Reserved
        THEN <<m.groups[2]>>
        ELSE <<>>

RECURSIVE columns_of(_, _)
columns_of(pieces, k) ==
    IF k > Len(pieces) THEN <<>>
    ELSE column_of(pieces[k]) \o columns_of(pieces, k + 1)

\* select_columns with every span of select_matches looked at
RECURSIVE all_span_columns(_, _)
all_span_columns(select_matches, k) ==
    IF k > Len(select_matches) THEN <<>>
    ELSE columns_of(split_comma(select_matches[k], 1), 1)
             \o all_span_columns(select_matches, k + 1)

select_columns_all(select_matches) == all_span_columns(select_matches, 1)

\* lines 38-49: only select_matches[0] is looked at
select_columns(select_matches) ==
    IF select_matches # <<>>
    THEN columns_of(split_comma(select_matches[1], 1), 1)
    ELSE <<>>

---------------------------------------------------------------------------
(* The per-file catalog: lines 51-95                                       *)

EmptyCatalog ==
    [database |-> {}, table |-> {}, column |-> {}, relationships |-> <<>>]

\* add_triples with the database name left out of the database set
RECURSIVE add_triples_no_database(_, _, _)
add_triples_no_database(result, matches, k) ==
    IF k > Len(matches) THEN result
    ELSE add_triples_no_database(
            [database |-> result.database,
             table |-> result.table \cup {matches[k][2]},
             column |-> result.column \cup {matches[k][3]},
             relationships |-> Append(result.relationships, matches[k])],
            matches, k + 1)

\* lines 60-64, from the k-th match on
RECURSIVE add_triples(_, _, _)
add_triples(result, matches, k) ==
    IF k > Len(matches) THEN result
    ELSE add_triples(
            [database |-> result.database \cup {matches[k][1]},
             table |-> result.table \cup {matches[k][2]},
             column |-> result.column \cup {matches[k][3]},
             relationships |-> Append(result.relationships, matches[k])],
            matches, k + 1)

\* add_pair with no database filter
add_pair_unfiltered(result, m) ==
    [result EXCEPT !.table = @ \cup {m[1]},
                   !.column = @ \cup {m[2]},
                   !.relationships = Append(@, <<<<>>, m[1], m[2]>>)]

\* add_pair with the column, not the table, looked up among the databases
add_pair_column_filter(result, m) ==
    IF m[2] \notin result.database
    THEN [result EXCEPT !.table = @ \cup {m[1]},
                        !.column = @ \cup {m[2]},
                        !.relationships = Append(@, <<<<>>, m[1], m[2]>>)]
    ELSE result

\* lines 69-73 for one match
add_pair(result, m) ==
    IF m[1] \notin result.database
    THEN [result EXCEPT !.table = @ \cup {m[1]},
                        !.column = @ \cup {m[2]},
                        !.relationships = Append(@, <<<<>>, m[1], m[2]>>)]
    ELSE result

\* lines 67-73, from the k-th match on
RECURSIVE add_pairs(_, _, _)
add_pairs(result, matches, k) ==
    IF k > Len(matches) THEN result
    ELSE add_pairs(add_pair(result, matches[k]), matches, k + 1)

\* str.rstrip('.')
rstrip_dot(w) ==
    IF \E k \in DOMAIN w : w[k] # "."
    THEN Sub(w, 1, CHOOSE k \in DOMAIN w :
                       w[k] # "." /\ \A m \in (k + 1)..Len(w) : w[m] = ".")
    ELSE <<>>

\* add_clause with the reserved words compared in upper case only
add_clause_case_sensitive(result, m) ==
    IF m[2] \notin Reserved
    THEN [result EXCEPT !.table = @ \cup {m[2]},
                        !.database = IF m[1] # <<>> THEN @ \cup {rstrip_dot(m[1])}
                                     ELSE @]
    ELSE result

\* add_clause with a relationship entry appended for a qualified table
add_clause_with_relationship(result, m) ==
    IF Upper(m[2]) \notin Reserved
    THEN [result EXCEPT !.table = @ \cup {m[2]},
                        !.database = IF m[1] # <<>> THEN @ \cup {rstrip_dot(m[1])}
                                     ELSE @,
                        !.relationships =
                            IF m[1] # <<>>
                            THEN Append(@, <<rstrip_dot(m[1]), m[2], <<>>>>)
                            ELSE @]
    ELSE result

\* lines 77-81 (and 85-89) for one match
add_clause(result, m) ==
    IF Upper(m[2]) \notin Reserved
    THEN [result EXCEPT !.table = @ \cup {m[2]},
                        !.database = IF m[1] # <<>> THEN @ \cup {rstrip_dot(m[1])}
                                     ELSE @]
    ELSE result

\* lines 76-81 and 84-89, from the k-th match on
RECURSIVE add_clauses(_, _, _)
add_clauses(result, matches, k) ==
    IF k > Len(matches) THEN result
    ELSE add_clauses(add_clause(result, matches[k]), matches, k + 1)

\* lines 92-93
add_columns(result, columns) == [result EXCEPT !.column = @ \cup Range(columns)]

\* lines 51-95
combine(tc, tp, fm, jm, columns) ==
    add_columns(
        add_clauses(
            add_clauses(
                add_pairs(add_triples(EmptyCatalog, tc, 1), tp, 1),
                fm, 1),
            jm, 1),
        columns)

\* lines 9-49: the locals of extract_sql_components for a file's raw text
locals_of(raw) ==
    LET content == normalize(raw)
        select_matches == findall("select_pattern", content)
    IN  [raw |-> raw,
         content |-> content,
         db_table_column_matches |-> findall("db_table_column_pattern", content),
         table_column_matches |-> findall("table_column_pattern", content),
         from_matches |-> findall("from_pattern", content),
         join_matches |-> findall("join_pattern", content),
         select_matches |-> select_matches,
         columns |-> select_columns(select_matches)]

\* lines 51-95 on those locals
result_of(l) ==
    combine(l.db_table_column_matches, l.table_column_matches,
            l.from_matches, l.join_matches, l.columns)

\* extract_sql_components, for the text of the file
extract_sql_components(raw) == result_of(locals_of(raw))

---------------------------------------------------------------------------
(* The merge and the reconciled views: lines 97-119 and 181-188            *)

\* merge with the relationship list assigned, not extended
merge_overwrite(all, fc) ==
    [database |-> all.database \cup fc.database,
     table |-> all.table \cup fc.table,
     column |-> all.column \cup fc.column,
     relationships |-> fc.relationships]

\* merge with only the entries the merged list does not hold yet appended
merge_dedup(all, fc) ==
    LET New(r) == r \notin Range(all.relationships)
    IN  [database |-> all.database \cup fc.database,
         table |-> all.table \cup fc.table,
         column |-> all.column \cup fc.column,
         relationships |-> all.relationships \o SelectSeq(fc.relationships, New)]

\* lines 114-117
merge(all, fc) ==
    [database |-> all.database \cup fc.database,
     table |-> all.table \cup fc.table,
     column |-> all.column \cup fc.column,
     relationships |-> all.relationships \o fc.relationships]

\* lines 181-185
table_db_pairs(components) ==
    {<<r[2], r[1]>> : r \in {x \in Range(components.relationships) :
                                x[1] # <<>> /\ x[2] # <<>>}}

\* str.endswith
endswith(name, suffix) ==
    /\ Len(name) >= Len(suffix)
    /\ Sub(name, Len(name) - Len(suffix) + 1, Len(name)) = suffix

---------------------------------------------------------------------------
(* Bounds and inputs                                                       *)

MaxParts == 2    \* a text under extraction is at most this many phrases
NumFiles == 2    \* the .sql files of the folder
MaxRuns == 2     \* how often the program is started on the folder

Scenario == <<"S", "E", "L", "E", "C", "T", " ", "o", ".", "i", "d", ",", " ", "o", ".", "t", "o", "t", "a", "l", " ", "A", "S", " ", "a", "m", "t", " ", "F", "R", "O", "M", " ", "s", "a", "l", "e", "s", ".", "o", "r", "d", "e", "r", "s", " ", "o", " ", "J", "O", "I", "N", " ", "s", "a", "l", "e", "s", ".", "c", "u", "s", "t", "o", "m", "e", "r", "s", " ", "c", " ", "O", "N", " ", "o", ".", "c", "u", "s", "t", "_", "i", "d", " ", "=", " ", "c", ".", "i", "d", ";">>
ThreePart == <<"o", "r", "d", "e", "r", "s", ".", "c", "u", "s", "t", "o", "m", "e", "r", "s", ".", "i", "d">>
PairOfDb == <<" ", "o", "r", "d", "e", "r", "s", ".", "x", " ">>
CommentThenFrom == <<"S", "E", "L", "E", "C", "T", " ", "i", "d", " ", "-", "-", " ", "f", "r", "o", "m", " ", "c", "u", "s", "t", "o", "m", "e", "r", "s", "\n", " ", "F", "R", "O", "M", " ", "o", "r", "d", "e", "r", "s">>
OpenComment == <<"-", "-", " ", "f", "r", "o", "m", " ", "c", "u", "s", "t", "o", "m", "e", "r", "s">>
ReservedTable == <<"S", "E", "L", "E", "C", "T", " ", "a", ",", " ", "b", " ", "F", "R", "O", "M", " ", "W", "H", "E", "R", "E">>
MixedCase == <<" ", "s", "e", "l", "e", "c", "t", " ", "F", "r", "o", "m", ",", " ", "h", " ", "f", "r", "o", "m", " ", "J", "o", "i", "n">>
FirstStatement == <<"S", "E", "L", "E", "C", "T", " ", "c", " ", "F", "R", "O", "M", " ", "t", ";">>
SecondStatement == <<" ", "s", "e", "l", "e", "c", "t", " ", "d", ",", " ", "e", " ", "A", "S", " ", "f", " ", "f", "r", "o", "m", " ", "s", ".", "u", ";">>
QualifiedClauses == <<" ", "F", "R", "O", "M", " ", "d", "b", ".", "t", " ", "J", "O", "I", "N", " ", "d", "b", ".", "v">>

\* the pieces the texts are made of
Phrases ==
    << ThreePart, <<" ", "c", "u", "s", "t", "o", "m", "e", "r", "s", ".", "i", "d">>, PairOfDb, <<"x", ".">>,
       CommentThenFrom, OpenComment, <<"\n">>,
       ReservedTable, MixedCase, Scenario, <<"/", "*", " ", "j", "o", "i", "n", " ", "t", " ", "*", "/">>,
       FirstStatement, SecondStatement, QualifiedClauses,
       <<"S", "E", "L", "E", "C", "T", "(", "g", ")", " ", "F", "R", "O", "M", " ", "t", ";">>, <<" ", "J", "O", "I", "N", "\t", "w", "h", "e", "r", "e", " ">> >>

\* the texts of at most n phrases
RECURSIVE TextsOf(_)
TextsOf(n) ==
    IF n = 0 THEN {<<>>}
    ELSE LET shorter == TextsOf(n - 1)
         IN  shorter \cup {t \o Phrases[k] : t \in shorter, k \in DOMAIN Phrases}

\* the texts of the files of a folder of several files
FolderTexts ==
    {<<>>, ThreePart, PairOfDb, QualifiedClauses, <<"c", "u", "s", "t", "o", "m", "e", "r", "s", ".", "i", "d", " ", "-", "-", " ", "c", "\n">>}

SqlName(k) == <<"f", Digits[k + 1]>> \o <<".", "s", "q", "l">>
SqlNames == {SqlName(k) : k \in 1..NumFiles}
NotesName == <<"n", "o", "t", "e", "s", ".", "t", "x", "t">>
NotesText == <<"F", "R", "O", "M", " ", "a", ".", "b", ".", "c">>

\* what a run has before its first call of extract_sql_components returns
NoLocals ==
    [raw |-> <<>>, content |-> <<>>, db_table_column_matches |-> <<>>,
     table_column_matches |-> <<>>, from_matches |-> <<>>,
     join_matches |-> <<>>, select_matches |-> <<>>, columns |-> <<>>]

\* the orders in which os.listdir may give the files of a set
Orders(S) ==
    {p \in [1..Cardinality(S) -> S] : \A a, b \in DOMAIN p : p[a] = p[b] => a = b}

---------------------------------------------------------------------------
(* The program                                                             *)

Begin(dir) ==
    /\ folder = dir
    /\ sql_files = <<>>
    /\ idx = 0
    /\ ext = NoLocals
    /\ file_components = EmptyCatalog
    /\ all_components = EmptyCatalog
    /\ pc = "start"
    /\ run = 1
    /\ prev_files = <<>>
    /\ prev_components = EmptyCatalog

\* a folder of NumFiles .sql files and one file that is not .sql
Init ==
    \E f \in [SqlNames -> FolderTexts] :
        Begin([n \in SqlNames \cup {NotesName} |->
                  IF n = NotesName THEN NotesText ELSE f[n]])

\* a folder of one .sql file, of any text of at most MaxParts phrases
InitExtract ==
    \E t \in TextsOf(MaxParts) : Begin([n \in {SqlName(1)} |-> t])

\* lines 99-107: os.listdir gives the names in any order
ListFiles ==
    /\ pc = "start"
    /\ sql_files' \in Orders({f \in DOMAIN folder : endswith(f, <<".", "s", "q", "l">>)})
    /\ all_components' = EmptyCatalog
    /\ idx' = 0
    /\ pc' = "loop"
    /\ UNCHANGED <<folder, ext, file_components, run, prev_files, prev_components>>

\* lines 109-117: one turn of the loop
ProcessFile ==
    /\ pc = "loop"
    /\ idx < Len(sql_files)
    /\ LET l == locals_of(folder[sql_files[idx + 1]])
           fc == result_of(l)
       IN  /\ ext' = l
           /\ file_components' = fc
           /\ all_components' = merge(all_components, fc)
    /\ idx' = idx + 1
    /\ UNCHANGED <<folder, sql_files, pc, run, prev_files, prev_components>>

\* line 119
Return ==
    /\ pc = "loop"
    /\ idx = Len(sql_files)
    /\ pc' = "done"
    /\ UNCHANGED <<folder, sql_files, idx, ext, file_components, all_components,
                   run, prev_files, prev_components>>

\* lines 275-293: the program is started again on the same folder; what the
\* run before returned is kept to compare with
Rerun ==
    /\ pc = "done"
    /\ run < MaxRuns
    /\ run' = run + 1
    /\ prev_files' = sql_files
    /\ prev_components' = all_components
    /\ pc' = "start"
    /\ UNCHANGED <<folder, sql_files, idx, ext, file_components, all_components>>

Next == ListFiles \/ ProcessFile \/ Return \/ Rerun

Spec == Init /\ [][Next]_vars

NextExtract == ListFiles \/ ProcessFile \/ Return

SpecExtract == InitExtract /\ [][NextExtract]_vars

---------------------------------------------------------------------------
(* Properties                                                              *)

W_orders == <<"o", "r", "d", "e", "r", "s">>
W_customers == <<"c", "u", "s", "t", "o", "m", "e", "r", "s">>
W_id == <<"i", "d">>
W_sales == <<"s", "a", "l", "e", "s">>
W_total == <<"t", "o", "t", "a", "l">>
W_cust_id == <<"c", "u", "s", "t", "_", "i", "d">>
W_amt == <<"a", "m", "t">>
W_o == <<"o">>
W_c == <<"c">>
W_a == <<"a">>
W_b == <<"b">>
W_x == <<"x">>

\* the relationship list as a bag: each triple with its number of occurrences
BagOf(seq) ==
    [r \in Range(seq) |-> Cardinality({k \in DOMAIN seq : seq[k] = r})]

Identifiers(c) == <<c.database, c.table, c.column>>

\* C1: two runs on the same folder, whatever the two enumeration orders,
\* return catalogs with the same database, table and column sets and the same
\* relationship triples with the same counts.
C1_OrderIndependent ==
    (pc = "done" /\ run >= 2) =>
        /\ Identifiers(all_components) = Identifiers(prev_components)
        /\ BagOf(all_components.relationships) = BagOf(prev_components.relationships)

\* two finished runs that enumerated the files in different orders and
\* returned different relationship lists
C1_Witness ==
    /\ pc = "done"
    /\ run >= 2
    /\ sql_files # prev_files
    /\ all_components.relationships # prev_components.relationships

\* C2: at every point of the merge, each (table, database) of table_db_pairs
\* of the merged catalog has its table in the table set and its database in
\* the database set.
C2_PairsInSets ==
    \A p \in table_db_pairs(all_components) :
        p[1] \in all_components.table /\ p[2] \in all_components.database

\* two files merged, with qualified and unqualified relationships among them
C2_Witness ==
    /\ pc = "loop"
    /\ idx >= 2
    /\ table_db_pairs(all_components) # {}
    /\ \E r \in Range(all_components.relationships) : r[1] = <<>>

\* the relationship list that passes 1 and 2 build from a normalized text
relationships_of(content) ==
    add_pairs(add_triples(EmptyCatalog,
                          findall("db_table_column_pattern", content), 1),
              findall("table_column_pattern", content), 1).relationships

DottedChars == WordChars \cup {"."}

\* a three-part reference d.t.c starts at i: three words joined by dots,
\* with no word or dot before or after; the index just after it, or 0
ThreePartEnd(s, i) ==
    LET e1 == WordEnd(s, i)
        e2 == WordEnd(s, e1 + 1)
        e3 == WordEnd(s, e2 + 1)
    IN  IF /\ (i = 1 \/ s[i - 1] \notin DottedChars)
           /\ e1 > i /\ LiteralAt(s, e1, <<".">>)
           /\ e2 > e1 + 1 /\ LiteralAt(s, e2, <<".">>)
           /\ e3 > e2 + 1
           /\ (e3 > Len(s) \/ s[e3] \notin DottedChars)
        THEN e3
        ELSE 0

\* the text with the characters i..e-1 made spaces
Blanked(s, i, e) == [k \in DOMAIN s |-> IF k >= i /\ k < e THEN " " ELSE s[k]]

\* the triple a three-part reference that starts at i stands for
TripleAt(s, i) ==
    LET e1 == WordEnd(s, i)
        e2 == WordEnd(s, e1 + 1)
        e3 == WordEnd(s, e2 + 1)
    IN  <<Sub(s, i, e1 - 1), Sub(s, e1 + 1, e2 - 1), Sub(s, e2 + 1, e3 - 1)>>

\* C3: a three-part reference d.t.c adds the triple (d, t, c) to the
\* relationship list and nothing else: compared with the same text without
\* the reference, the triple occurs once more and no other entry, so no
\* ('', t, c), occurs more often; the text orders.customers.id alone gives
\* exactly the triple (orders, customers, id).
C3_OnlyTheTriple ==
    /\ \A i \in DOMAIN ext.content :
          ThreePartEnd(ext.content, i) > 0 =>
              LET ref == TripleAt(ext.content, i)
                  with == BagOf(file_components.relationships)
                  without == BagOf(relationships_of(
                                 Blanked(ext.content, i, ThreePartEnd(ext.content, i))))
              IN  /\ with \sqsubseteq (without (+) SetToBag({ref}))
                  /\ CopiesIn(ref, with) = CopiesIn(ref, without) + 1
    /\ ext.raw = ThreePart =>
          file_components.relationships = <<<<W_orders, W_customers, W_id>>>>

\* orders.customers.id extracted, followed by the two-part customers.id
C3_Witness ==
    /\ pc = "done"
    /\ ext.raw = ThreePart \o <<" ", "c", "u", "s", "t", "o", "m", "e", "r", "s", ".", "i", "d">>
    /\ ThreePartEnd(ext.content, 1) > 0
    /\ file_components.relationships =
          <<<<W_orders, W_customers, W_id>>, <<<<>>, W_customers, W_id>>>>

\* C4: no line comment is left in the normalized text, whether its line ends
\* with a newline or with the end of the input: the text holds no `--`, and
\* the table set has no identifier that the raw text has only in a comment.
C4_LineCommentsRemoved ==
    /\ IndexOf(ext.content, 1, <<"-", "-">>) = 0
    /\ ext.raw \in {CommentThenFrom, OpenComment} =>
          W_customers \notin file_components.table

\* the tables the FROM and JOIN passes add
clause_tables(l) ==
    add_clauses(add_clauses(EmptyCatalog, l.from_matches, 1), l.join_matches, 1).table

\* C5: the FROM, JOIN and SELECT-list passes add no SELECT, FROM, WHERE or
\* JOIN in any letter case; a text with no dotted reference has none in its
\* table and column sets; SELECT a, b FROM WHERE gives the columns a and b
\* and no table.
C5_NoReservedWord ==
    /\ \A w \in clause_tables(ext) \cup Range(ext.columns) : Upper(w) \notin Reserved
    /\ ext.table_column_matches = <<>> =>
          \A w \in file_components.table \cup file_components.column :
              Upper(w) \notin Reserved
    /\ ext.raw = ReservedTable =>
          /\ file_components.table = {}
          /\ file_components.column = {W_a, W_b}

\* a text with no dotted reference whose FROM and JOIN matches are all
\* reserved words, in upper and in mixed case
C5_Witness ==
    /\ pc = "done"
    /\ ext.table_column_matches = <<>>
    /\ ext.from_matches # <<>>
    /\ ext.join_matches # <<>>
    /\ \A k \in DOMAIN ext.from_matches : Upper(ext.from_matches[k][2]) \in Reserved
    /\ \E k \in DOMAIN ext.from_matches : ext.from_matches[k][2] \notin Reserved
    /\ file_components.table = {}

\* C6: a turn of the loop leaves the merged relationship list as it was,
\* followed by the file's list, and each merged set as it was, united with
\* the file's set.
C6_AppendOnly ==
    [][(pc = "loop" /\ idx' = idx + 1) =>
          /\ all_components'.relationships =
                all_components.relationships \o file_components'.relationships
          /\ all_components'.database =
                all_components.database \cup file_components'.database
          /\ all_components'.table = all_components.table \cup file_components'.table
          /\ all_components'.column =
                all_components.column \cup file_components'.column]_vars

\* two files merged, each with one occurrence of a triple that the merged
\* list holds twice
C6_Witness ==
    /\ pc = "loop"
    /\ idx = 2
    /\ Len(file_components.relationships) = 1
    /\ Len(all_components.relationships) = 2
    /\ all_components.relationships[1] = all_components.relationships[2]

\* C7: the scenario text gives database {sales}, tables with orders and
\* customers, columns with id, total and cust_id and without the alias amt,
\* and the unqualified entries of o and c; no entry resolves o or c to
\* orders or customers.
C7_Scenario ==
    ext.raw = Scenario =>
        /\ file_components.database = {W_sales}
        /\ {W_orders, W_customers} \subseteq file_components.table
        /\ {W_id, W_total, W_cust_id} \subseteq file_components.column
        /\ W_amt \notin file_components.column
        /\ W_amt \notin Range(ext.columns)
        /\ {<<<<>>, W_o, W_id>>, <<<<>>, W_o, W_total>>,
            <<<<>>, W_o, W_cust_id>>, <<<<>>, W_c, W_id>>}
              \subseteq Range(file_components.relationships)
        /\ {W_o, W_c} \subseteq file_components.table
        /\ \A r \in Range(file_components.relationships) :
              r[3] \in {W_id, W_total, W_cust_id} => r[2] \in {W_o, W_c}

\* the scenario text extracted
C7_Witness ==
    /\ pc = "done"
    /\ ext.raw = Scenario
    /\ ext.columns = <<W_id, W_total>>
    /\ Len(file_components.relationships) = 6

\* the database names of the three-part matches of the file
triple_databases(l) == {m[1] : m \in Range(l.db_table_column_matches)}

\* the two-part matches that the database filter keeps
kept_pairs(l) ==
    LET Kept(m) == m[1] \notin triple_databases(l)
    IN  SelectSeq(l.table_column_matches, Kept)

\* C8: no unqualified entry of a file has as table the database of a triple
\* of the same file, wherever the two stand in the text; and the catalog is
\* the one built without the pairs so discarded.
C8_GlobalPairFilter ==
    /\ \A r \in Range(file_components.relationships) :
          r[1] = <<>> => r[2] \notin triple_databases(ext)
    /\ file_components =
          combine(ext.db_table_column_matches, kept_pairs(ext),
                  ext.from_matches, ext.join_matches, ext.columns)

\* the pair orders.x stands before orders.customers.id and is discarded
C8_Witness ==
    /\ pc = "done"
    /\ ext.raw = PairOfDb \o ThreePart
    /\ ext.table_column_matches[1] = <<W_orders, W_x>>
    /\ ext.db_table_column_matches = <<<<W_orders, W_customers, W_id>>>>
    /\ W_x \notin file_components.column
    /\ W_orders \notin file_components.table
    /\ Len(file_components.relationships) = 1

\* C9: the relationship list is the three-part matches followed by one
\* unqualified entry per kept two-part match; FROM, JOIN and SELECT-list
\* matches add none, so a text with no dotted reference has none.
C9_RelationshipsFromPasses12 ==
    /\ file_components.relationships =
          ext.db_table_column_matches
              \o [k \in DOMAIN kept_pairs(ext) |->
                     <<<<>>, kept_pairs(ext)[k][1], kept_pairs(ext)[k][2]>>]
    /\ ext.table_column_matches = <<>> => file_components.relationships = <<>>

\* FROM and JOIN matches with a database qualifier, and only the two
\* two-part matches in the relationship list
C9_Witness ==
    /\ pc = "done"
    /\ ext.raw = QualifiedClauses
    /\ ext.from_matches # <<>> /\ ext.from_matches[1][1] # <<>>
    /\ ext.join_matches # <<>> /\ ext.join_matches[1][1] # <<>>
    /\ file_components.database # {}
    /\ Len(file_components.relationships) = 2

\* the column names that lines 40-49 would take from the k-th span
span_columns(l, k) == Range(columns_of(split_comma(l.select_matches[k], 1), 1))

\* the identifiers of the dotted references of the file
dotted_names(l) ==
    UNION {Range(m) : m \in Range(l.db_table_column_matches)
                               \cup Range(l.table_column_matches)}

=============================================================================
